---------------------------- MODULE Spec2Model ----------------------------
(***************************************************************************)
(* Model of pycloudlib/lxd/cloud.py: the LXD cloud classes _BaseLXD,       *)
(* LXDContainer and LXDVirtualMachine.                                     *)
(*                                                                         *)
(* A Python string is a sequence of tokens (each token a run of            *)
(* characters that the code never looks inside, ":" being a token of its   *)
(* own), so concatenation, formatting, "in" and split are computed on      *)
(* sequences.  None and the empty string are both the empty sequence: the  *)
(* code only ever tests these values for truthiness.  A dict is a sequence *)
(* of <<key, value>> pairs in insertion order.                             *)
(*                                                                         *)
(* Every public operation is synchronous and single-threaded, so it is one *)
(* action: the responses of the external world (command failures, command  *)
(* output, metadata query results) are inputs of the action, and the       *)
(* external commands and queries it issues are recorded, in order, in log. *)
(***************************************************************************)
EXTENDS Integers, Sequences, FiniteSets, TLC

VARIABLES
    cls,        \* "container" (LXDContainer) or "vm" (LXDVirtualMachine)
    key_pair,   \* self.key_pair: public key content, <<>> when None
    cfg,        \* the dict object the caller passes as config_dict
    call,       \* the last public call: its name, arguments and environment
    log,        \* external commands / queries / instance starts of that call
    built,      \* what _BaseLXD._prepare_command did in that call
    ret         \* how that call ended: returned value or raised error

vars == <<cls, key_pair, cfg, call, log, built, ret>>

-----------------------------------------------------------------------------
(* Bounds of the model *)

\* the caller's dict is passed again only while its user data holds fewer
\* than MaxStanzas ssh_authorized_keys stanzas
MaxStanzas == 2

-----------------------------------------------------------------------------
(* Strings *)

S(t) == <<t>>

Range(s) == {s[i] : i \in 1..Len(s)}

\* Python "sub in s" on strings
Contains(s, sub) ==
    \E i \in 0..(Len(s) - Len(sub)) :
        \A j \in 1..Len(sub) : s[i + j] = sub[j]

\* number of (possibly overlapping) occurrences of sub in s
Count(s, sub) ==
    Cardinality({i \in 0..(Len(s) - Len(sub)) :
                    \A j \in 1..Len(sub) : s[i + j] = sub[j]})

\* s.index(t) for a one-token t that occurs in s
IndexOf(s, t) == CHOOSE i \in 1..Len(s) : s[i] = t /\ \A j \in 1..(i - 1) : s[j] # t

\* s.split(sep), sep one token: the list of pieces
RECURSIVE Split(_, _)
Split(s, sep) ==
    IF sep \notin Range(s) THEN <<s>>
    ELSE LET i == IndexOf(s, sep)
         IN <<SubSeq(s, 1, i - 1)>> \o Split(SubSeq(s, i + 1, Len(s)), sep)

-----------------------------------------------------------------------------
(* Dicts *)

DictHas(d, k) == \E i \in 1..Len(d) : d[i][1] = k

DictGet(d, k) == d[CHOOSE i \in 1..Len(d) : d[i][1] = k][2]

\* d[k] += suffix, on the dict object itself
DictAppendTo(d, k, suffix) ==
    [i \in 1..Len(d) |-> IF d[i][1] = k THEN <<d[i][1], d[i][2] \o suffix>> ELSE d[i]]

-----------------------------------------------------------------------------
(* Class attributes *)

DailyRemote == S("ubuntu-daily")
ReleasesRemote == S("ubuntu")

TRUSTY_CONTAINER_HASH_KEY == S("combined_rootxz_sha256")
CONTAINER_HASH_KEY == S("combined_squashfs_sha256")
VM_HASH_KEY == S("combined_disk1-img_sha256")
XENIAL_IMAGE_VSOCK_SUPPORT ==
    <<"images", ":", "ubuntu", "/", "16.04", "/", "cloud">>

UserDataKey == S("user.user-data")

\* pycloudlib.util.UBUNTU_RELEASE_VERSION_MAP, codename -> version
UBUNTU_RELEASE_VERSION_MAP ==
    << <<"xenial", "16.04">>, <<"bionic", "18.04">>, <<"focal", "20.04">> >>

\* the releases pycloudlib.lxd.defaults.base_vm_profiles has a profile for
BaseVmProfileReleases == {S("xenial"), S("bionic"), S("focal")}

base_vm_profiles(release) == <<"profile-config-of-">> \o release

-----------------------------------------------------------------------------
(* Results and external events *)

Ok(v) == [kind |-> "ok", val |-> v]
Err(e) == [kind |-> "error", val |-> e]
NoResult == [kind |-> "none", val |-> "none"]

SubpEv(cmd, data) == [kind |-> "subp", args |-> cmd, data |-> data, flag |-> FALSE]
QueryEv(filters, daily) == [kind |-> "query", args |-> filters, data |-> <<>>, flag |-> daily]
StartEv(name, wait) == [kind |-> "start", args |-> <<name>>, data |-> <<>>, flag |-> wait]

\* the event just appended to lg is the one the environment makes fail
Fails(lg, env) == Len(lg) = env.failAt

NumQueries(lg) == Cardinality({i \in 1..Len(lg) : lg[i].kind = "query"})

\* what the n-th query of a call answers
QueryAnswer(env, n) == IF n = 1 THEN env.q1 ELSE env.q2

NotBuilt == [kind |-> "none", val |-> "none", profiles |-> <<>>,
             user_data |-> <<>>, config_dict |-> <<>>]

-----------------------------------------------------------------------------
(* Hash-key selection *)

\* the branch for trusty forgotten
ContainerGetImageHashKeyNoTrusty(release) == CONTAINER_HASH_KEY

ContainerGetImageHashKey(release) ==
    IF release = S("trusty") THEN TRUSTY_CONTAINER_HASH_KEY
    ELSE CONTAINER_HASH_KEY

VmGetImageHashKey(release) == VM_HASH_KEY

GetImageHashKey(c, release) ==
    IF c = "vm" THEN VmGetImageHashKey(release) ELSE ContainerGetImageHashKey(release)

-----------------------------------------------------------------------------
(* _BaseLXD._prepare_command *)

\* the daily remote put in front of every release
FullReleaseAlways(release) == DailyRemote \o S(":") \o release

\* "if ':' not in release: release = self._daily_remote + ':' + release"
FullRelease(release) ==
    IF ":" \notin Range(release) THEN DailyRemote \o S(":") \o release
    ELSE release

\* textwrap.dedent("ssh_authorized_keys:\n    - {}\n".format(public_key))
SshUserData(public_key) ==
    <<"ssh_authorized_keys:", "\n", "    - ">> \o public_key \o <<"\n">>

\* "\n{}".format(ssh_user_data)
SshSuffix(public_key) == <<"\n">> \o SshUserData(public_key)

\* user_data after the key-pair block
KeyedUserData(kp, user_data, config_dict) ==
    IF kp = <<>> THEN user_data
    ELSE IF user_data # <<>> THEN user_data \o SshSuffix(kp)
    ELSE IF ~DictHas(config_dict, UserDataKey)
    THEN <<"#cloud-config", "\n">> \o SshUserData(kp)
    ELSE user_data

\* config_dict after the key-pair block (the dict object is changed in place)
KeyedConfigDict(kp, config_dict) ==
    IF kp # <<>> /\ DictHas(config_dict, UserDataKey)
    THEN DictAppendTo(config_dict, UserDataKey, SshSuffix(kp))
    ELSE config_dict

OptionArgs(flag, value) ==
    IF value # <<>> THEN <<S(flag), value>> ELSE <<>>

RECURSIVE ProfileArgs(_)
ProfileArgs(profile_list) ==
    IF profile_list = <<>> THEN <<>>
    ELSE <<S("--profile"), Head(profile_list)>> \o ProfileArgs(Tail(profile_list))

RECURSIVE ConfigArgs(_)
ConfigArgs(config_dict) ==
    IF config_dict = <<>> THEN <<>>
    ELSE <<S("--config"), Head(config_dict)[1] \o S("=") \o Head(config_dict)[2]>>
         \o ConfigArgs(Tail(config_dict))

\* the conflict check left out
UserDataArgsUnchecked(user_data, config_dict) ==
    IF user_data # <<>>
    THEN Ok(<<S("--config"), UserDataKey \o S("=") \o user_data>>)
    ELSE Ok(<<>>)

\* the last block of _prepare_command: the conflict check and the user data
UserDataArgs(user_data, config_dict) ==
    IF user_data # <<>>
    THEN IF DictHas(config_dict, UserDataKey)
         THEN Err("ValueError")
         ELSE Ok(<<S("--config"), UserDataKey \o S("=") \o user_data>>)
    ELSE Ok(<<>>)

\* the command up to the user data
CommandHead(name, release, ephemeral, network, storage, inst_type, profile_list, config_dict) ==
    <<S("lxc"), S("init"), FullRelease(release)>>
    \o (IF name # <<>> THEN <<name>> ELSE <<>>)
    \o (IF ephemeral THEN <<S("--ephemeral")>> ELSE <<>>)
    \o OptionArgs("--network", network)
    \o OptionArgs("--storage", storage)
    \o OptionArgs("--type", inst_type)
    \o ProfileArgs(profile_list)
    \o ConfigArgs(config_dict)

\* "return cmd", unless the last block raised
Finished(head, last, config_dict) ==
    [ret |-> IF last.kind = "error" THEN last ELSE Ok(head \o last.val),
     config_dict |-> config_dict]

\* [ret: the command or the error, config_dict: the caller's dict afterwards]
BasePrepareCommand(kp, name, release, ephemeral, network, storage, inst_type, profile_list, user_data, config_dict) ==
    Finished(CommandHead(name, release, ephemeral, network, storage, inst_type,
                         profile_list, KeyedConfigDict(kp, config_dict)),
             UserDataArgs(KeyedUserData(kp, user_data, config_dict),
                          KeyedConfigDict(kp, config_dict)),
             KeyedConfigDict(kp, config_dict))

\* the record kept in built
Built(prep, profile_list, user_data, config_dict) ==
    [kind |-> prep.ret.kind, val |-> prep.ret.val, profiles |-> profile_list,
     user_data |-> user_data, config_dict |-> config_dict]

-----------------------------------------------------------------------------
(* External calls: subp(...) and self._streams_query(...)                   *)
(* An operation that runs after another takes the other's outcome,         *)
(* a record [log, ret], as its parameter.                                  *)

\* the outcome of an external call that appended its event to lg
Outcome(lg, env, error, value) ==
    [log |-> lg, ret |-> IF Fails(lg, env) THEN Err(error) ELSE Ok(value)]

\* subp(cmd, data=data)
Subp(cmd, data, lg, env) ==
    Outcome(Append(lg, SubpEv(cmd, data)), env, "CommandError", <<>>)

\* the answer to the last query of lg
Answer(lg, env) ==
    [log |-> lg, ret |-> IF Fails(lg, env) THEN Err("QueryError")
                         ELSE Ok(QueryAnswer(env, NumQueries(lg)))]

\* self._streams_query(filters, daily)
StreamsQuery(filters, daily, lg, env) ==
    Answer(Append(lg, QueryEv(filters, daily)), env)

-----------------------------------------------------------------------------
(* clone, delete_image, create_profile *)

\* "return LXDInstance(new_instance_name)"
Cloned(new_instance_name, r) ==
    [log |-> r.log,
     ret |-> IF r.ret.kind = "error" THEN r.ret
             ELSE Ok([name |-> new_instance_name, key_pair |-> <<>>])]

Clone(base, new_instance_name, lg, env) ==
    Cloned(new_instance_name,
           Subp(<<S("lxc"), S("copy"), base, new_instance_name>>, <<>>, lg, env))

DeleteImage(image_id, lg, env) ==
    Subp(<<S("lxc"), S("image"), S("delete"), image_id>>, <<>>, lg, env)

\* force not looked at
ProfileKeptAnyway(profile_name, profile_list, force) ==
    Contains(profile_list, profile_name)

\* "if profile_name in profile_list and not force: ... return"
ProfileKept(profile_name, profile_list, force) ==
    Contains(profile_list, profile_name) /\ ~force

\* subp(["lxc", "profile", "edit", profile_name], data=profile_config)
EditProfile(profile_name, profile_config, cre, env) ==
    IF cre.ret.kind = "error" THEN cre
    ELSE Subp(<<S("lxc"), S("profile"), S("edit"), profile_name>>,
              profile_config, cre.log, env)

\* subp(["lxc", "profile", "create", profile_name]) and the edit
MakeProfile(profile_name, profile_config, del, env) ==
    IF del.ret.kind = "error" THEN del
    ELSE EditProfile(profile_name, profile_config,
                     Subp(<<S("lxc"), S("profile"), S("create"), profile_name>>,
                          <<>>, del.log, env),
                     env)

\* the profile deleted whether or not force is set
DeleteProfileAlways(profile_name, force, lg, env) ==
    Subp(<<S("lxc"), S("profile"), S("delete"), profile_name>>, <<>>, lg, env)

\* "if force: subp(['lxc', 'profile', 'delete', profile_name])"
DeleteProfile(profile_name, force, lg, env) ==
    IF force
    THEN Subp(<<S("lxc"), S("profile"), S("delete"), profile_name>>, <<>>, lg, env)
    ELSE [log |-> lg, ret |-> Ok(<<>>)]

\* create_profile after "lxc profile list"
ListedProfiles(profile_name, profile_config, force, lst, env) ==
    IF lst.ret.kind = "error" THEN lst
    ELSE IF ProfileKept(profile_name, env.profiles, force) THEN lst
    ELSE MakeProfile(profile_name, profile_config,
                     DeleteProfile(profile_name, force, lst.log, env), env)

CreateProfile(profile_name, profile_config, force, lg, env) ==
    ListedProfiles(profile_name, profile_config, force,
                   Subp(<<S("lxc"), S("profile"), S("list")>>, <<>>, lg, env),
                   env)

-----------------------------------------------------------------------------
(* Image lookup *)

\* the remote of "<remote>:<id>", <<>> when there is no ":"
RemoteOf(image_id) ==
    IF ":" \in Range(image_id)
    THEN SubSeq(image_id, 1, IndexOf(image_id, ":") - 1)
    ELSE <<>>

\* the id of "<remote>:<id>"
IdOf(image_id) ==
    IF ":" \in Range(image_id)
    THEN SubSeq(image_id, IndexOf(image_id, ":") + 1, Len(image_id))
    ELSE image_id

\* "daily = True ... if remote == self._releases_remote: daily = False"
IsDaily(image_id) ==
    ~(":" \in Range(image_id) /\ RemoteOf(image_id) = ReleasesRemote)

\* "elif remote != self._daily_remote: raise RuntimeError"
UnknownRemote(image_id) ==
    /\ ":" \in Range(image_id)
    /\ RemoteOf(image_id) # ReleasesRemote
    /\ RemoteOf(image_id) # DailyRemote

\* "if not image_hash_key: image_hash_key = self._get_image_hash_key()"
HashKeyOr(c, image_hash_key) ==
    IF image_hash_key # <<>> THEN image_hash_key ELSE GetImageHashKey(c, <<>>)

\* _BaseLXD._image_info
BaseImageInfo(c, image_id, image_hash_key, lg, env) ==
    IF UnknownRemote(image_id)
    THEN [log |-> lg, ret |-> Err("RuntimeError")]
    ELSE StreamsQuery(<<HashKeyOr(c, image_hash_key) \o S("=") \o IdOf(image_id)>>,
                      IsDaily(image_id), lg, env)

\* the second query never made
NeedsSecondQueryNever(image_info) == FALSE

\* "if not image_info:" in LXDContainer._image_info
NeedsSecondQuery(image_info) == image_info = <<>>

\* LXDContainer._image_info after its first query
SecondImageInfo(image_id, first, env) ==
    IF first.ret.kind = "error" THEN first
    ELSE IF NeedsSecondQuery(first.ret.val)
    THEN BaseImageInfo("container", image_id, TRUSTY_CONTAINER_HASH_KEY,
                       first.log, env)
    ELSE first

\* LXDContainer._image_info
ContainerImageInfo(image_id, lg, env) ==
    SecondImageInfo(image_id,
        BaseImageInfo("container", image_id, CONTAINER_HASH_KEY, lg, env), env)

\* self._image_info(image_id)
ImageInfo(c, image_id, lg, env) ==
    IF c = "container" THEN ContainerImageInfo(image_id, lg, env)
    ELSE BaseImageInfo(c, image_id, <<>>, lg, env)

\* info[0][field] of a query outcome
FirstField(info, field) ==
    IF info.ret.kind = "error" THEN info
    ELSE [log |-> info.log,
          ret |-> IF info.ret.val = <<>> THEN Err("IndexError")
                  ELSE IF ~DictHas(info.ret.val[1], field) THEN Err("KeyError")
                  ELSE Ok(DictGet(info.ret.val[1], field))]

\* _BaseLXD.image_serial
BaseImageSerial(c, image_id, lg, env) ==
    FirstField(ImageInfo(c, image_id, lg, env), S("version_name"))

\* image_serial of the class
ImageSerial(c, image_id, lg, env) ==
    IF c = "vm" /\ image_id = XENIAL_IMAGE_VSOCK_SUPPORT
    THEN [log |-> lg, ret |-> Ok(<<>>)]
    ELSE BaseImageSerial(c, image_id, lg, env)

\* "[0]" of a query outcome
FirstRecord(q) ==
    IF q.ret.kind = "error" THEN q
    ELSE [log |-> q.log,
          ret |-> IF q.ret.val = <<>> THEN Err("IndexError") ELSE Ok(q.ret.val[1])]

\* _BaseLXD._find_image
FindImage(release, arch, daily, lg, env) ==
    FirstRecord(StreamsQuery(<<S("datatype=image-downloads"), S("ftype=lxd.tar.xz"),
                               S("arch=") \o arch, S("release=") \o release>>,
                             daily, lg, env))

\* the remote left out of the reference
ImageReferenceNoRemote(remote, image_data, image_hash_key) ==
    IF DictHas(image_data, image_hash_key)
    THEN Ok(DictGet(image_data, image_hash_key))
    ELSE Err("KeyError")

\* '%s:%s' % (remote, image_data[image_hash_key])
ImageReference(remote, image_data, image_hash_key) ==
    IF DictHas(image_data, image_hash_key)
    THEN Ok(remote \o S(":") \o DictGet(image_data, image_hash_key))
    ELSE Err("KeyError")

\* _BaseLXD._search_for_image after _find_image
FoundImage(c, remote, release, found) ==
    IF found.ret.kind = "error" THEN found
    ELSE [log |-> found.log,
          ret |-> ImageReference(remote, found.ret.val, GetImageHashKey(c, release))]

\* _BaseLXD._search_for_image
BaseSearchForImage(c, remote, daily, release, arch, lg, env) ==
    FoundImage(c, remote, release, FindImage(release, arch, daily, lg, env))

\* trusty not refused
VmSearchForImageNoRefusal(remote, daily, release, arch, lg, env) ==
    IF release = S("xenial")
    THEN [log |-> lg, ret |-> Ok(XENIAL_IMAGE_VSOCK_SUPPORT)]
    ELSE FoundImage("vm", remote, release, FindImage(release, arch, daily, lg, env))

\* LXDVirtualMachine._search_for_image
VmSearchForImage(remote, daily, release, arch, lg, env) ==
    IF release = S("xenial")
    THEN [log |-> lg, ret |-> Ok(XENIAL_IMAGE_VSOCK_SUPPORT)]
    ELSE IF release = S("trusty")
    THEN [log |-> lg, ret |-> Err("UnsupportedReleaseException")]
    ELSE BaseSearchForImage("vm", remote, daily, release, arch, lg, env)

SearchForImage(c, remote, daily, release, arch, lg, env) ==
    IF c = "vm" THEN VmSearchForImage(remote, daily, release, arch, lg, env)
    ELSE BaseSearchForImage(c, remote, daily, release, arch, lg, env)

ReleasedImage(c, release, arch, lg, env) ==
    SearchForImage(c, ReleasesRemote, FALSE, release, arch, lg, env)

DailyImage(c, release, arch, lg, env) ==
    SearchForImage(c, DailyRemote, TRUE, release, arch, lg, env)

-----------------------------------------------------------------------------
(* LXDVirtualMachine: profiles and _prepare_command *)

\* tokens the pattern "ubuntu" matches inside
UbuntuTokens == {"ubuntu", "ubuntu-daily"}

ReleaseNames ==
    {UBUNTU_RELEASE_VERSION_MAP[i][1] : i \in 1..Len(UBUNTU_RELEASE_VERSION_MAP)}
    \cup {UBUNTU_RELEASE_VERSION_MAP[i][2] : i \in 1..Len(UBUNTU_RELEASE_VERSION_MAP)}

\* positions the group "release" of release_regex can capture
ReleaseMatches(image_id) ==
    {j \in 1..Len(image_id) :
        /\ image_id[j] \in ReleaseNames
        /\ \E i \in 1..(j - 1) : image_id[i] \in UbuntuTokens}

\* the codename of the first map entry naming release
CodenameOf(release) ==
    S(UBUNTU_RELEASE_VERSION_MAP[
        CHOOSE k \in 1..Len(UBUNTU_RELEASE_VERSION_MAP) :
            /\ release \in {UBUNTU_RELEASE_VERSION_MAP[k][1],
                            UBUNTU_RELEASE_VERSION_MAP[k][2]}
            /\ \A m \in 1..(k - 1) :
                   release \notin {UBUNTU_RELEASE_VERSION_MAP[m][1],
                                   UBUNTU_RELEASE_VERSION_MAP[m][2]}][1])

\* what the greedy ".*" make the group capture: the last release name
\* that follows an "ubuntu"
MatchedRelease(image_id) ==
    image_id[CHOOSE j \in ReleaseMatches(image_id) :
                 \A k \in ReleaseMatches(image_id) : k <= j]

\* LXDVirtualMachine._extract_release_from_image_id
ExtractReleaseFromImageId(image_id, lg, env) ==
    IF ReleaseMatches(image_id) # {}
    THEN [log |-> lg, ret |-> Ok(CodenameOf(MatchedRelease(image_id)))]
    ELSE FirstField(ImageInfo("vm", image_id, lg, env), S("release"))

\* "return [profile_name]"
MadeProfile(profile_name, made) ==
    IF made.ret.kind = "error" THEN made
    ELSE [log |-> made.log, ret |-> Ok(<<profile_name>>)]

\* build_necessary_profiles after _extract_release_from_image_id
ProfilesOf(base, env) ==
    IF base.ret.kind = "error" THEN base
    ELSE IF base.ret.val \notin BaseVmProfileReleases
    THEN [log |-> base.log, ret |-> Err("KeyError")]
    ELSE MadeProfile(S("pycloudlib-vm-") \o base.ret.val,
                     CreateProfile(S("pycloudlib-vm-") \o base.ret.val,
                                   base_vm_profiles(base.ret.val), FALSE,
                                   base.log, env))

\* LXDVirtualMachine.build_necessary_profiles
BuildNecessaryProfiles(release, lg, env) ==
    ProfilesOf(ExtractReleaseFromImageId(release, lg, env), env)

\* the command LXDVirtualMachine._prepare_command returns, from the base one
VmCommand(cmd) == Append(cmd, S("--vm"))

\* the profile list _BaseLXD._prepare_command is given
ProfilesToUse(c, a, lg, env) ==
    IF c = "vm" /\ a.profile_list = <<>>
    THEN BuildNecessaryProfiles(a.release, lg, env)
    ELSE [log |-> lg, ret |-> Ok(a.profile_list)]

\* _prepare_command of the class after the base one
Prepared(c, a, config_dict, profs, prep) ==
    [log |-> profs.log,
     ret |-> IF prep.ret.kind = "ok" /\ c = "vm"
             THEN Ok(VmCommand(prep.ret.val)) ELSE prep.ret,
     built |-> Built(prep, profs.ret.val, a.user_data, config_dict),
     config_dict |-> prep.config_dict]

\* _prepare_command of the class once the profiles are known
PrepareWith(c, kp, a, config_dict, profs) ==
    IF profs.ret.kind = "error"
    THEN [log |-> profs.log, ret |-> profs.ret, built |-> NotBuilt,
          config_dict |-> config_dict]
    ELSE Prepared(c, a, config_dict, profs,
                  BasePrepareCommand(kp, a.name, a.release, a.ephemeral,
                      a.network, a.storage, a.inst_type, profs.ret.val,
                      a.user_data, config_dict))

\* _prepare_command of the class:
\* [log, ret, built, config_dict (the caller's dict afterwards)]
PrepareCommand(c, kp, a, config_dict, lg, env) ==
    PrepareWith(c, kp, a, config_dict, ProfilesToUse(c, a, lg, env))

-----------------------------------------------------------------------------
(* init and launch *)

\* "if not name: name = result.split('Instance name is: ')[1]"
InstanceName(name, result) ==
    IF name # <<>> THEN Ok(name)
    ELSE IF Len(Split(result, "Instance name is: ")) < 2 THEN Err("IndexError")
    ELSE Ok(Split(result, "Instance name is: ")[2])

\* "return LXDInstance(name, self.key_pair)"
NewInstance(kp, nm) ==
    IF nm.kind = "error" THEN nm ELSE Ok([name |-> nm.val, key_pair |-> kp])

\* init after subp(cmd)
Inited(kp, a, p, run, env) ==
    [log |-> run.log,
     ret |-> IF run.ret.kind = "error" THEN run.ret
             ELSE NewInstance(kp, InstanceName(a.name, env.out)),
     built |-> p.built,
     config_dict |-> p.config_dict]

\* init after _prepare_command
InitWith(kp, a, p, env) ==
    IF p.ret.kind = "error" THEN p
    ELSE Inited(kp, a, p, Subp(p.ret.val, <<>>, p.log, env), env)

\* _BaseLXD.init: [log, ret, built, config_dict]
InitInstance(c, kp, a, config_dict, lg, env) ==
    InitWith(kp, a, PrepareCommand(c, kp, a, config_dict, lg, env), env)

\* start always told to wait
StartInstanceWaiting(instance, wait, lg, env) ==
    Outcome(Append(lg, StartEv(instance.name, TRUE)), env, "StartError", instance)

\* instance.start(wait)
StartInstance(instance, wait, lg, env) ==
    Outcome(Append(lg, StartEv(instance.name, wait)), env, "StartError", instance)

\* launch after instance.start(wait)
Started(i, st) ==
    [log |-> st.log, ret |-> st.ret, built |-> i.built,
     config_dict |-> i.config_dict]

\* launch after init
LaunchWith(i, wait, env) ==
    IF i.ret.kind = "error" THEN i
    ELSE Started(i, StartInstance(i.ret.val, wait, i.log, env))

\* _BaseLXD.launch: [log, ret, built, config_dict]
LaunchInstance(c, kp, a, wait, config_dict, lg, env) ==
    LaunchWith(InitInstance(c, kp, a, config_dict, lg, env), wait, env)

-----------------------------------------------------------------------------
(* Inputs of the calls and responses of the environment *)

PublicKeys == {S("ssh-rsa AAAA")}

UserData0 == <<"#cloud-config", "\n", "runcmd">>

\* dicts a caller creates
CallerDicts ==
    { <<>>,
      << <<S("k"), S("v")>> >>,
      << <<UserDataKey, UserData0>>, <<S("k"), S("v")>> >> }

InstanceNames == {<<>>, S("n1")}
ImageIds == {S("focal"), <<"ubuntu", ":", "focal">>}
Networks == {<<>>, S("net0")}
Storages == {<<>>, S("pool0")}
InstTypes == {<<>>, S("t2")}
ProfileLists == {<<>>, <<S("p1")>>, <<S("p1"), S("p2")>>}
UserDatas == {<<>>, UserData0}

\* every combination of the arguments of _prepare_command
PrepareArgs ==
    [name : InstanceNames, release : ImageIds, ephemeral : BOOLEAN,
     network : Networks, storage : Storages, inst_type : InstTypes,
     profile_list : ProfileLists, user_data : UserDatas]

\* the arguments init and launch are called with: those of PrepareArgs
\* whose network, storage and type are all absent, or a mix of them
LaunchArgs ==
    {a \in PrepareArgs :
        <<a.network, a.storage, a.inst_type>> \in
            { <<<<>>, <<>>, <<>>>>, <<S("net0"), <<>>, S("t2")>>,
              <<<<>>, S("pool0"), <<>>>> }}

\* releases asked of released_image / daily_image (<<>> is None)
Releases == {<<>>, S("trusty"), S("xenial"), S("focal")}
Archs == {S("amd64"), S("arm64")}

\* image ids asked of image_serial / delete_image
SerialImageIds ==
    {S("h1"), <<"ubuntu", ":", "h1">>, <<"ubuntu-daily", ":", "h2">>,
     <<"images", ":", "h1">>, XENIAL_IMAGE_VSOCK_SUPPORT}

\* names and configs given to create_profile
ProfileNames == {<<"p">>, <<"p", "q">>}
ProfileConfigs == {S("config: {}")}

\* outputs of "lxc profile list"
ProfileListOutputs ==
    { <<"default">>,
      <<"default", "\n", "p", "q">>,
      <<"default", "\n", "pycloudlib-vm-", "focal">> }

\* outputs of "lxc init"
InitOutputs == {<<"Creating the instance">>,
                <<"Instance name is: ", "auto1">>}

\* records of the image index
RecSquashfs == << <<CONTAINER_HASH_KEY, S("h1")>>, <<S("version_name"), S("v1")>>,
                  <<S("release"), S("focal")>> >>
RecRootxz == << <<TRUSTY_CONTAINER_HASH_KEY, S("h2")>>,
                <<S("version_name"), S("v2")>>, <<S("release"), S("trusty")>> >>
RecDisk == << <<VM_HASH_KEY, S("h3")>>, <<S("version_name"), S("v3")>>,
              <<S("release"), S("focal")>> >>
RecBare == << <<S("arch"), S("amd64")>> >>

\* answers of a metadata query: a list of records
QueryResults ==
    { <<>>, <<RecSquashfs>>, <<RecRootxz>>, <<RecDisk>>, <<RecBare>>,
      <<RecBare, RecSquashfs>> }

\* responses when only commands can be issued
CommandEnvs(maxFail) ==
    [failAt : 0..maxFail, profiles : {<<>>}, q1 : {<<>>}, q2 : {<<>>},
     out : {<<>>}]

\* responses to create_profile: up to four commands, the first a list
ProfileEnvs ==
    [failAt : 0..4, profiles : ProfileListOutputs \cup {<<>>}, q1 : {<<>>},
     q2 : {<<>>}, out : {<<>>}]

\* responses to the image lookups: up to two queries
QueryEnvs(maxFail, second) ==
    [failAt : 0..maxFail, profiles : {<<>>}, q1 : QueryResults,
     q2 : IF second THEN QueryResults ELSE {<<>>}, out : {<<>>}]

\* responses to init / launch: the virtual machine class with no profile
\* list may query the index and create a profile before "lxc init"
LaunchEnvs(c, a, maxFail) ==
    IF c = "vm" /\ a.profile_list = <<>>
    THEN [failAt : 0..(maxFail + 4), profiles : ProfileListOutputs \cup {<<>>},
          q1 : QueryResults, q2 : {<<>>}, out : InitOutputs \cup {<<>>}]
    ELSE [failAt : 0..maxFail, profiles : {<<>>}, q1 : {<<>>}, q2 : {<<>>},
          out : InitOutputs \cup {<<>>}]

\* positions in lg of the commands holding word
CommandPos(lg, word) ==
    {i \in 1..Len(lg) :
        /\ lg[i].kind = "subp"
        /\ \E j \in 1..Len(lg[i].args) : lg[i].args[j] = S(word)}

\* positions in lg of the queries
QueryPos(lg) == {i \in 1..Len(lg) : lg[i].kind = "query"}

\* the n-th query of lg was issued and answered
Answered(lg, env, n) ==
    \E i \in QueryPos(lg) :
        /\ Cardinality({j \in QueryPos(lg) : j <= i}) = n
        /\ env.failAt # i

\* the environment answers only what it was asked: a response that no
\* command or query of the call consumed is left empty
Consumed(env, lg, readsOut) ==
    /\ env.failAt <= Len(lg)
    /\ ~Answered(lg, env, 1) => env.q1 = <<>>
    /\ ~Answered(lg, env, 2) => env.q2 = <<>>
    /\ (env.profiles # <<>>) =
           (\E i \in CommandPos(lg, "list") : env.failAt # i)
    /\ (env.out # <<>>) =
           (readsOut /\ \E i \in CommandPos(lg, "init") : env.failAt # i)

StanzaCount(d) ==
    IF DictHas(d, UserDataKey)
    THEN Count(DictGet(d, UserDataKey), <<"ssh_authorized_keys:">>)
    ELSE 0


-----------------------------------------------------------------------------
(* The state machine *)

Idle == [op |-> "none", args |-> <<>>, env |-> <<>>, key_pair |-> <<>>,
         config_dict |-> <<>>]

Init ==
    /\ cls \in {"container", "vm"}
    /\ key_pair = <<>>
    /\ cfg = <<>>
    /\ call = Idle
    /\ log = <<>>
    /\ built = NotBuilt
    /\ ret = NoResult

\* the state after a call that leaves the caller's dict alone
Returned(op, args, env, r) ==
    /\ Consumed(env, r.log, FALSE)
    /\ call' = [op |-> op, args |-> args, env |-> env, key_pair |-> key_pair,
                config_dict |-> cfg]
    /\ log' = r.log
    /\ ret' = r.ret
    /\ built' = NotBuilt
    /\ UNCHANGED <<cls, key_pair, cfg>>

\* the state after _prepare_command / init / launch
Launched(op, args, env, readsOut, r) ==
    /\ Consumed(env, r.log, readsOut)
    /\ call' = [op |-> op, args |-> args, env |-> env, key_pair |-> key_pair,
                config_dict |-> cfg]
    /\ log' = r.log
    /\ ret' = r.ret
    /\ built' = r.built
    /\ cfg' = r.config_dict
    /\ UNCHANGED <<cls, key_pair>>

\* the caller has taken the result of the last call and goes on
CallerContinues ==
    /\ call # Idle
    /\ call' = Idle /\ log' = <<>> /\ built' = NotBuilt /\ ret' = NoResult
    /\ UNCHANGED <<cls, key_pair, cfg>>

\* "User must manually specify the key pair to be used"
SetKeyPair ==
    /\ call = Idle
    /\ \E k \in PublicKeys \cup {<<>>} : k # key_pair /\ key_pair' = k
    /\ UNCHANGED <<cls, cfg, call, log, built, ret>>

\* the caller makes the dict it will pass as config_dict
NewConfigDict ==
    /\ call = Idle
    /\ \E d \in CallerDicts : d # cfg /\ cfg' = d
    /\ UNCHANGED <<cls, key_pair, call, log, built, ret>>

CallClone ==
    /\ call = Idle
    /\ \E base \in {S("n1"), <<"n1", "/", "snap0">>}, env \in CommandEnvs(1) :
        Returned("clone", <<base, S("n2")>>, env, Clone(base, S("n2"), <<>>, env))

CallDeleteImage ==
    /\ call = Idle
    /\ \E image_id \in SerialImageIds, env \in CommandEnvs(1) :
        Returned("delete_image", <<image_id>>, env,
                 DeleteImage(image_id, <<>>, env))

CallCreateProfile ==
    /\ call = Idle
    /\ \E n \in ProfileNames, pc \in ProfileConfigs, force \in BOOLEAN,
          env \in ProfileEnvs :
        Returned("create_profile",
                 [profile_name |-> n, profile_config |-> pc, force |-> force],
                 env, CreateProfile(n, pc, force, <<>>, env))

CallReleasedImage ==
    /\ call = Idle
    /\ \E release \in Releases, arch \in Archs, env \in QueryEnvs(1, FALSE) :
        Returned("released_image", [release |-> release, arch |-> arch], env,
                 ReleasedImage(cls, release, arch, <<>>, env))

CallDailyImage ==
    /\ call = Idle
    /\ \E release \in Releases, arch \in Archs, env \in QueryEnvs(1, FALSE) :
        Returned("daily_image", [release |-> release, arch |-> arch], env,
                 DailyImage(cls, release, arch, <<>>, env))

CallImageSerial ==
    /\ call = Idle
    /\ \E image_id \in SerialImageIds, env \in QueryEnvs(2, TRUE) :
        Returned("image_serial", <<image_id>>, env,
                 ImageSerial(cls, image_id, <<>>, env))

CallInit ==
    /\ call = Idle
    /\ StanzaCount(cfg) < MaxStanzas
    /\ \E a \in LaunchArgs :
        \E env \in LaunchEnvs(cls, a, 1) :
            Launched("init", a, env, a.name = <<>>,
                     InitInstance(cls, key_pair, a, cfg, <<>>, env))

CallLaunch ==
    /\ call = Idle
    /\ StanzaCount(cfg) < MaxStanzas
    /\ \E a \in LaunchArgs, wait \in BOOLEAN :
        \E env \in LaunchEnvs(cls, a, 2) :
            Launched("launch", a @@ [wait |-> wait], env, a.name = <<>>,
                     LaunchInstance(cls, key_pair, a, wait, cfg, <<>>, env))

\* self._prepare_command(...) alone, on every combination of its arguments
CallPrepareCommand ==
    /\ call = Idle
    /\ StanzaCount(cfg) < MaxStanzas
    /\ \E a \in PrepareArgs :
        \E env \in LaunchEnvs(cls, a, 0) :
            Launched("_prepare_command", a, env, FALSE,
                     PrepareCommand(cls, key_pair, a, cfg, <<>>, env))

Next ==
    \/ CallerContinues
    \/ SetKeyPair
    \/ NewConfigDict
    \/ CallClone
    \/ CallDeleteImage
    \/ CallCreateProfile
    \/ CallReleasedImage
    \/ CallDailyImage
    \/ CallImageSerial
    \/ CallInit
    \/ CallLaunch

Spec == Init /\ [][Next]_vars

\* the command builder on its own
NextBuild ==
    \/ CallerContinues
    \/ SetKeyPair
    \/ NewConfigDict
    \/ CallPrepareCommand

SpecBuild == Init /\ [][NextBuild]_vars

-----------------------------------------------------------------------------
(* Properties *)

IsLookup == call.op \in {"released_image", "daily_image"}

\* the first query of the call was issued and answered with a record
FirstRecordGiven ==
    /\ Len(log) >= 1
    /\ log[1].kind = "query"
    /\ call.env.failAt # 1
    /\ call.env.q1 # <<>>

\* the hash key the claims name for a class and a release
NamedHashKey(c, release) ==
    IF c = "vm" THEN <<"combined_disk1-img_sha256">>
    ELSE IF release = <<"trusty">> THEN <<"combined_rootxz_sha256">>
    ELSE <<"combined_squashfs_sha256">>

\* the remote the claims name for the two lookups
NamedRemote == IF call.op = "released_image" THEN <<"ubuntu">> ELSE <<"ubuntu-daily">>

\* C1: the container class selects combined_rootxz_sha256 exactly for the
\* release trusty and combined_squashfs_sha256 for every other release
\* (None included), the virtual machine class combined_disk1-img_sha256 for
\* every release; and it is that key a lookup reads in the record it is given.
C1_HashKeySelection ==
    /\ \A r \in Releases \cup ImageIds :
        /\ ContainerGetImageHashKey(r) =
               (IF r = <<"trusty">> THEN <<"combined_rootxz_sha256">>
                ELSE <<"combined_squashfs_sha256">>)
        /\ VmGetImageHashKey(r) = <<"combined_disk1-img_sha256">>
    /\ (IsLookup /\ FirstRecordGiven) =>
        ((ret.kind = "ok") =
            DictHas(call.env.q1[1], NamedHashKey(cls, call.args.release)))

C1_Witness ==
    /\ cls = "container"
    /\ call.op = "released_image"
    /\ call.args.release = <<"trusty">>
    /\ ret = Ok(<<"ubuntu", ":", "h2">>)

\* the "--profile" arguments the claim describes: one pair per profile
NamedProfileArgs(pl) ==
    [i \in 1..(2 * Len(pl)) |->
        IF i % 2 = 1 THEN <<"--profile">> ELSE pl[i \div 2]]

\* the "--config" arguments the claim describes: one pair per entry
NamedConfigArgs(d) ==
    [i \in 1..(2 * Len(d)) |->
        IF i % 2 = 1 THEN <<"--config">>
        ELSE d[i \div 2][1] \o <<"=">> \o d[i \div 2][2]]

\* the argument list the claim describes, for arguments a, the profiles pl
\* and the dict d
NamedCommand(a, pl, d) ==
    << <<"lxc">>, <<"init">>,
       IF \E i \in 1..Len(a.release) : a.release[i] = ":" THEN a.release
       ELSE <<"ubuntu-daily", ":">> \o a.release >>
    \o (IF a.name = <<>> THEN <<>> ELSE <<a.name>>)
    \o (IF a.ephemeral THEN << <<"--ephemeral">> >> ELSE <<>>)
    \o (IF a.network = <<>> THEN <<>> ELSE << <<"--network">>, a.network >>)
    \o (IF a.storage = <<>> THEN <<>> ELSE << <<"--storage">>, a.storage >>)
    \o (IF a.inst_type = <<>> THEN <<>> ELSE << <<"--type">>, a.inst_type >>)
    \o NamedProfileArgs(pl)
    \o NamedConfigArgs(d)
    \o (IF a.user_data = <<>> THEN <<>>
        ELSE << <<"--config">>, <<"user.user-data", "=">> \o a.user_data >>)

UserDataConflict ==
    /\ call.args.user_data # <<>>
    /\ \E i \in 1..Len(call.config_dict) :
           call.config_dict[i][1] = <<"user.user-data">>

\* C2: with no key pair and no user-data conflict, _BaseLXD._prepare_command
\* returns lxc init R, then the name, --ephemeral, --network, --storage,
\* --type, the --profile pairs, the --config pairs and last the user data,
\* each only when given and in this order; R has ubuntu-daily: put in front
\* when the release names no remote.
C2_ArgumentList ==
    (/\ call.op = "_prepare_command"
     /\ call.key_pair = <<>>
     /\ ~UserDataConflict
     /\ built.kind # "none")
    => /\ built.kind = "ok"
       /\ built.val = NamedCommand(call.args, built.profiles, call.config_dict)
       /\ (cls = "container" => ret = Ok(built.val))

C2_Witness ==
    /\ call.op = "_prepare_command"
    /\ cls = "container"
    /\ call.key_pair = <<>>
    /\ ret = Ok(<< <<"lxc">>, <<"init">>, <<"ubuntu-daily", ":", "focal">>,
                   <<"n1">>, <<"--ephemeral">>, <<"--network">>, <<"net0">>,
                   <<"--storage">>, <<"pool0">>, <<"--type">>, <<"t2">>,
                   <<"--profile">>, <<"p1">>, <<"--profile">>, <<"p2">>,
                   <<"--config">>, <<"k", "=", "v">>, <<"--config">>,
                   <<"user.user-data", "=", "#cloud-config", "\n", "runcmd">> >>)

\* C3: on the virtual machine class released_image and daily_image of
\* trusty raise UnsupportedReleaseException for every architecture before
\* any query is issued; on the container class they never raise it.
C3_UnsupportedRelease ==
    (IsLookup /\ call.args.release = <<"trusty">>) =>
        IF cls = "vm"
        THEN ret = Err("UnsupportedReleaseException") /\ log = <<>>
        ELSE ~(ret.kind = "error" /\ ret.val = "UnsupportedReleaseException")

C3_Witness ==
    /\ cls = "vm"
    /\ call.op = "daily_image"
    /\ call.args.release = <<"trusty">>
    /\ call.args.arch = <<"arm64">>
    /\ ret = Err("UnsupportedReleaseException")

\* the lookup returns a reference exactly when the first record it was given
\* holds the hash key, and the reference is <remote>:<record[hash key]>
ReferenceFromRecord ==
    /\ (ret.kind = "ok") =
           (FirstRecordGiven
            /\ DictHas(call.env.q1[1], NamedHashKey(cls, call.args.release)))
    /\ (ret.kind = "ok") =>
           (ret.val = NamedRemote \o <<":">>
                      \o DictGet(call.env.q1[1],
                                 NamedHashKey(cls, call.args.release)))

\* C4 as stated: every reference released_image / daily_image return comes
\* from the hash key of the first record of the metadata query.
C4_Original == IsLookup => ReferenceFromRecord

\* C4: released_image and daily_image return a reference only when the first
\* record of the query holds the hash key of the release / variant, the
\* reference being <remote>:<record[hash key]>, and end in an error when the
\* key or the record is missing; except that the virtual machine class
\* answers xenial with images:ubuntu/16.04/cloud and issues no query.
C4_HashKeyPresent ==
    IsLookup =>
        IF cls = "vm" /\ call.args.release = <<"xenial">>
        THEN /\ ret = Ok(<<"images", ":", "ubuntu", "/", "16.04", "/", "cloud">>)
             /\ log = <<>>
        ELSE ReferenceFromRecord

C4_Witness ==
    /\ cls = "container"
    /\ call.op = "daily_image"
    /\ call.env.q1 = <<RecBare, RecSquashfs>>
    /\ ret = Err("KeyError")

\* the commands create_profile issues after the list when it recreates
NamedProfileCommands ==
    (IF call.args.force
     THEN << SubpEv(<< <<"lxc">>, <<"profile">>, <<"delete">>,
                       call.args.profile_name >>, <<>>) >>
     ELSE <<>>)
    \o << SubpEv(<< <<"lxc">>, <<"profile">>, <<"create">>,
                    call.args.profile_name >>, <<>>),
          SubpEv(<< <<"lxc">>, <<"profile">>, <<"edit">>,
                    call.args.profile_name >>, call.args.profile_config) >>

IsPrefix(s, t) == Len(s) <= Len(t) /\ s = SubSeq(t, 1, Len(s))

\* the profile name appears in the output of "lxc profile list"
ProfileListed == Contains(call.env.profiles, call.args.profile_name)

\* C5: create_profile first lists the profiles; when the name appears in
\* the list and force is not set it issues nothing more; otherwise it issues
\* profile delete (only with force), profile create and profile edit with
\* the config as input, in this order, up to the first one that fails.
C5_CreateProfile ==
    (call.op = "create_profile") =>
        (/\ Len(log) >= 1
         /\ log[1] = SubpEv(<< <<"lxc">>, <<"profile">>, <<"list">> >>, <<>>)
         /\ (call.env.failAt = 1) => (Len(log) = 1 /\ ret.kind = "error")
         /\ (call.env.failAt # 1 /\ ProfileListed /\ ~call.args.force)
                => (Len(log) = 1 /\ ret.kind = "ok")
         /\ (call.env.failAt # 1 /\ ~(ProfileListed /\ ~call.args.force))
                => (/\ IsPrefix(Tail(log), NamedProfileCommands)
                    /\ (ret.kind = "ok") => (Tail(log) = NamedProfileCommands)
                    /\ (ret.kind = "ok") = (call.env.failAt = 0)
                    /\ (ret.kind = "error") => (Len(log) = call.env.failAt)))

C5_Witness ==
    /\ call.op = "create_profile"
    /\ call.args.force
    /\ ProfileListed
    /\ Len(log) = 4
    /\ log[2].args[3] = <<"delete">>
    /\ ret.kind = "ok"

PublicOps ==
    {"clone", "create_profile", "delete_image", "init", "launch",
     "released_image", "daily_image", "image_serial"}

\* positions in log of the "lxc init" commands
InitPos ==
    {i \in 1..Len(log) :
        /\ log[i].kind = "subp"
        /\ Len(log[i].args) >= 2
        /\ log[i].args[1] = <<"lxc">>
        /\ log[i].args[2] = <<"init">>}

\* positions in log of the instance starts
StartPos == {i \in 1..Len(log) : log[i].kind = "start"}

\* C6 as stated: every call of a public operation issues exactly one
\* external command or one metadata query.
C6_Original == (call.op \in PublicOps) => (Len(log) = 1)

\* the most commands and queries init can issue
MostOfInit ==
    IF cls = "vm" /\ call.args.profile_list = <<>> THEN 5 ELSE 1

\* C6: every operation issues its external commands and queries one after
\* another, but not always exactly one: clone and delete_image issue exactly
\* one command; released_image and daily_image exactly one query, and none
\* on the virtual machine class for xenial and trusty; image_serial at most
\* two queries on the container class and at most one on the virtual machine
\* class; create_profile one command when it keeps the profile and otherwise
\* at most three (four with force); init at most one command, or at most
\* five commands and queries on the virtual machine class without a profile
\* list; launch what init issues and then at most one instance start.
C6_EventCounts ==
    /\ (call.op \in {"clone", "delete_image"})
           => (Len(log) = 1 /\ log[1].kind = "subp")
    /\ IsLookup
           => IF cls = "vm" /\ call.args.release \in {<<"xenial">>, <<"trusty">>}
              THEN log = <<>>
              ELSE Len(log) = 1 /\ log[1].kind = "query"
    /\ (call.op = "image_serial")
           => (/\ Len(log) <= (IF cls = "container" THEN 2 ELSE 1)
               /\ \A i \in 1..Len(log) : log[i].kind = "query")
    /\ (call.op = "create_profile")
           => (/\ Len(log) >= 1
               /\ Len(log) <= (IF ProfileListed /\ ~call.args.force THEN 1
                               ELSE IF call.args.force THEN 4 ELSE 3)
               /\ \A i \in 1..Len(log) : log[i].kind = "subp")
    /\ (call.op = "init")
           => (/\ Len(log) <= MostOfInit
               /\ StartPos = {})
    /\ (call.op = "launch")
           => (/\ Len(log) <= MostOfInit + 1
               /\ Cardinality(StartPos) <= 1
               /\ Len(log) - Cardinality(StartPos) <= MostOfInit)

C6_Witness ==
    /\ call.op = "create_profile"
    /\ Len(log) = 4
    /\ ret.kind = "ok"

\* C7: when user_data is given and config_dict holds user.user-data,
\* _BaseLXD._prepare_command raises ValueError, with or without a key pair,
\* and init / launch end in an error, run no lxc init and start no instance.
C7_UserDataConflict ==
    (call.op \in {"init", "launch"} /\ UserDataConflict) =>
        (/\ ret.kind = "error"
         /\ InitPos = {}
         /\ StartPos = {}
         /\ (cls = "container" \/ call.args.profile_list # <<>>)
                => (built.kind # "none")
         /\ (built.kind # "none")
                => (/\ built.kind = "error"
                    /\ built.val = "ValueError"
                    /\ ret = Err("ValueError")))

C7_Witness ==
    /\ call.op = "launch"
    /\ call.key_pair # <<>>
    /\ UserDataConflict
    /\ ret = Err("ValueError")
    /\ log = <<>>

\* the ssh_authorized_keys stanza of a public key
NamedStanza(k) == <<"ssh_authorized_keys:", "\n", "    - ">> \o k \o <<"\n">>

\* positions in the built command of the user.user-data values
UserDataPos ==
    {i \in 1..Len(built.val) :
        /\ Len(built.val[i]) >= 2
        /\ built.val[i][1] = "user.user-data"
        /\ built.val[i][2] = "="}

\* the value a "user.user-data=<value>" argument carries
ValueOf(arg) == SubSeq(arg, 3, Len(arg))

\* the user data of the caller's dict
DictUserData(d) == d[CHOOSE i \in 1..Len(d) : d[i][1] = <<"user.user-data">>][2]

\* the user data the claim describes for a call with a key pair
NamedKeyedUserData ==
    IF call.args.user_data # <<>>
    THEN call.args.user_data \o <<"\n">> \o NamedStanza(call.key_pair)
    ELSE IF \E i \in 1..Len(call.config_dict) :
                call.config_dict[i][1] = <<"user.user-data">>
    THEN DictUserData(call.config_dict) \o <<"\n">> \o NamedStanza(call.key_pair)
    ELSE <<"#cloud-config", "\n">> \o NamedStanza(call.key_pair)

\* C8 as stated: with a key pair set, a command _prepare_command returns
\* holds exactly one --config user.user-data=... argument, whose value is the
\* given user data (or #cloud-config) followed by the ssh_authorized_keys
\* stanza of the public key and holds that stanza exactly once; with no key
\* pair no stanza is added.
C8_Original ==
    (call.op \in {"init", "launch"} /\ built.kind = "ok") =>
        IF call.key_pair # <<>>
        THEN /\ Cardinality(UserDataPos) = 1
             /\ \A i \in UserDataPos :
                    /\ i > 1
                    /\ built.val[i - 1] = <<"--config">>
                    /\ ValueOf(built.val[i]) = NamedKeyedUserData
                    /\ Count(ValueOf(built.val[i]), NamedStanza(call.key_pair)) = 1
        ELSE \A i \in UserDataPos :
                 ValueOf(built.val[i]) \in
                     {call.args.user_data} \cup
                     {call.config_dict[j][2] : j \in 1..Len(call.config_dict)}

\* C9: in a launch the lxc init command completes before the instance is
\* started; start is invoked at most once, last, and with the caller's wait;
\* when building the command or lxc init fails the error reaches the caller,
\* nothing is started and nothing is issued again.
C9_LaunchOrder ==
    (call.op = "launch") =>
        (/\ Cardinality(StartPos) <= 1
         /\ Cardinality(InitPos) <= 1
         /\ \A i \in StartPos :
                /\ i = Len(log)
                /\ log[i].flag = call.args.wait
                /\ (i - 1) \in InitPos
                /\ call.env.failAt # i - 1
         /\ (built.kind = "error")
                => (ret = Err(built.val) /\ StartPos = {} /\ InitPos = {})
         /\ \A i \in InitPos :
                (call.env.failAt = i)
                    => (ret = Err("CommandError") /\ StartPos = {} /\ Len(log) = i)
         /\ (call.env.failAt # 0)
                => (ret.kind = "error" /\ Len(log) = call.env.failAt)
         /\ \A i, j \in 1..Len(log) : (i # j) => (log[i] # log[j]))

C9_Witness ==
    /\ call.op = "launch"
    /\ ~call.args.wait
    /\ ret.kind = "ok"
    /\ StartPos = {Len(log)}
    /\ log[Len(log)].flag = FALSE
    /\ InitPos = {Len(log) - 1}

\* the answer the container class settles on: the first when it is not empty
SettledAnswer == IF call.env.q1 # <<>> THEN call.env.q1 ELSE call.env.q2

\* C10: LXDContainer._image_info queries first with combined_squashfs_sha256;
\* it queries a second time, with combined_rootxz_sha256 and the same image
\* id and stream, exactly when the first answer is empty; it never queries
\* more than twice and yields the first answer that is not empty, else the
\* second.
C10_ImageInfoFallback ==
    (call.op = "image_serial" /\ cls = "container") =>
        (/\ Len(log) <= 2
         /\ \A i \in 1..Len(log) : log[i].kind = "query" /\ Len(log[i].args) = 1
         /\ (Len(log) >= 1)
                => (log[1].args[1][1] = "combined_squashfs_sha256")
         /\ (Len(log) = 2)
                = (Len(log) >= 1 /\ call.env.failAt # 1 /\ call.env.q1 = <<>>)
         /\ (Len(log) = 2)
                => (/\ log[2].args[1][1] = "combined_rootxz_sha256"
                    /\ Tail(log[2].args[1]) = Tail(log[1].args[1])
                    /\ log[2].flag = log[1].flag)
         /\ (log = <<>>) => (ret = Err("RuntimeError"))
         /\ (Len(log) >= 1 /\ call.env.failAt = 0)
                => IF SettledAnswer = <<>> THEN ret = Err("IndexError")
                   ELSE IF DictHas(SettledAnswer[1], <<"version_name">>)
                   THEN ret = Ok(DictGet(SettledAnswer[1], <<"version_name">>))
                   ELSE ret = Err("KeyError"))

C10_Witness ==
    /\ call.op = "image_serial"
    /\ cls = "container"
    /\ Len(log) = 2
    /\ call.env.q1 = <<>>
    /\ call.env.q2 = <<RecRootxz>>
    /\ ret = Ok(<<"v2">>)

\* C11 as stated: _prepare_command leaves the caller's config_dict as it was
\* given, so that after every init / launch the dict object the caller
\* passed still holds what it held when the call was made.
C11_Original ==
    (call.op \in {"init", "launch"}) => (cfg = call.config_dict)

=============================================================================
